---- MODULE Spec2Model ----
(***************************************************************************)
(* Model of src/routes/_main/activity.tsx: the paginated activity log      *)
(* (ActivityPage) and its pure helpers formatTimeAgo, formatTriggerReason  *)
(* and getActivityDetails.                                                 *)
(*                                                                         *)
(* Three specifications share the module:                                  *)
(*   Spec        the ActivityPage component: currentPage, the query cache  *)
(*               of getRecentActivities, Previous / Next clicks;           *)
(*   SpecDetails getActivityDetails applied to one activity;               *)
(*   SpecTime    formatTimeAgo applied to one elapsed time.                *)
(***************************************************************************)
EXTENDS Integers, Sequences, FiniteSets, TLC

VARIABLES
    remote,        \* the remote list getRecentActivities serves, newest first
    currentPage,   \* useState(1)
    queryCache,    \* useQuery: page |-> [status, data] for every page requested
    activity,      \* the argument of getActivityDetails
    detailsPc,     \* "idle" before the call, "returned" / "threw" after it
    details,       \* the object getActivityDetails returned
    diffMs,        \* now.getTime() - activityTime.getTime()
    timePc,        \* "idle" before formatTimeAgo, "returned" after it
    timeAgo        \* the string formatTimeAgo returned

vars == <<remote, currentPage, queryCache, activity, detailsPc, details,
          diffMs, timePc, timeAgo>>

viewVars == <<remote, currentPage, queryCache>>
detailsVars == <<activity, detailsPc, details>>
timeVars == <<diffMs, timePc, timeAgo>>

(***************************************************************************)
(* Bounds of the model.                                                    *)
(***************************************************************************)
MaxN == 41          \* longest remote list
MaxRun == 20        \* longest run of consecutive BACKUP_OPERATION entries

ITEMS_PER_PAGE == 20

Min(a, b) == IF a < b THEN a ELSE b
Max(a, b) == IF a < b THEN b ELSE a

(***************************************************************************)
(* The remote list.  Entry i has id i; the entries bLo .. bLo + bLen - 1   *)
(* are backup operations, the others cycle through the shown types.        *)
(***************************************************************************)
ShownTypes == <<"SCALING_OPERATION", "PLAYER_SURGE", "PLAYER_DROP",
                "CAPACITY_REACHED", "SERVER_RESTART", "ATLAS_LIFECYCLE",
                "OTHER">>

RemoteList(n, bLo, bLen) ==
    [i \in 1..n |->
        [id |-> i,
         activityType |-> IF i >= bLo /\ i < bLo + bLen
                          THEN "BACKUP_OPERATION"
                          ELSE ShownTypes[(i % Len(ShownTypes)) + 1]]]

RemoteLists ==
    { RemoteList(n, bLo, bLen) :
        n \in 0..MaxN, bLo \in 1..(MaxN + 1), bLen \in 0..MaxRun }

(* getRecentActivities({limit, offset}): the slice of the remote list. *)
getRecentActivities(limit, offset) ==
    SubSeq(remote, Max(offset, 0) + 1, Min(Max(offset, 0) + limit, Len(remote)))

(* The input of the query for page p. *)
QueryOffset(p) == (p - 1) * ITEMS_PER_PAGE

(***************************************************************************)
(* One render of ActivityPage.                                             *)
(***************************************************************************)
(* useQuery for the current page.  A page never requested has no entry. *)
Query == queryCache[currentPage]

isPending == Query.status = "pending"

(* activitiesData?.data || [] *)
activitiesData == IF Query.status = "success" THEN Query.data ELSE <<>>

RECURSIVE FilterNotBackup_dropFirst(_)
FilterNotBackup_dropFirst(s) ==
    IF s = <<>> THEN <<>>
    ELSE IF Head(s).activityType = "BACKUP_OPERATION" THEN Tail(s)
    ELSE <<Head(s)>> \o FilterNotBackup_dropFirst(Tail(s))

(* .filter((activity) => activity.activityType !== "BACKUP_OPERATION") *)
RECURSIVE FilterNotBackup(_)
FilterNotBackup(s) ==
    IF s = <<>> THEN <<>>
    ELSE IF Head(s).activityType # "BACKUP_OPERATION"
         THEN <<Head(s)>> \o FilterNotBackup(Tail(s))
         ELSE FilterNotBackup(Tail(s))

activities == FilterNotBackup(activitiesData)

hasNextPage_nonEmpty == Len(activities) > 0

hasNextPage == Len(activities) = ITEMS_PER_PAGE

hasPrevPage == currentPage > 1

View_skeletonWithoutData ==
    IF Query.status # "success" THEN "loading"
    ELSE IF Len(activities) = 0 THEN "empty"
    ELSE "populated"

(* The three-way conditional of the card body. *)
View ==
    IF isPending THEN "loading"
    ELSE IF Len(activities) = 0 THEN "empty"
    ELSE "populated"

(* The rows the populated branch maps over. *)
RenderedList == IF View = "populated" THEN activities ELSE <<>>

(* {!isPending && activities.length > 0 && (...Previous, Next...)} *)
ControlsRendered == ~isPending /\ Len(activities) > 0

PrevEnabled_ignoreDisabled == ControlsRendered

PrevEnabled == ControlsRendered /\ hasPrevPage
NextEnabled == ControlsRendered /\ hasNextPage

(* A changed currentPage changes the query key: a page not in the cache
   starts pending with a fetch in flight, a cached page is used as it is. *)
Navigate(p) ==
    /\ currentPage' = p
    /\ queryCache' =
         IF p \in DOMAIN queryCache THEN queryCache
         ELSE queryCache @@ (p :> [status |-> "pending", data |-> <<>>])
    /\ UNCHANGED remote

(* onClick={() => setCurrentPage(currentPage - 1)} disabled={!hasPrevPage} *)
ClickPrevious ==
    /\ PrevEnabled
    /\ Navigate(currentPage - 1)
    /\ UNCHANGED <<detailsVars, timeVars>>

(* onClick={() => setCurrentPage(currentPage + 1)} disabled={!hasNextPage} *)
ClickNext ==
    /\ NextEnabled
    /\ Navigate(currentPage + 1)
    /\ UNCHANGED <<detailsVars, timeVars>>

(* The fetch of page p resolves with the page of the remote list. *)
FetchSuccess ==
    \E p \in DOMAIN queryCache :
        /\ queryCache[p].status = "pending"
        /\ queryCache' = [queryCache EXCEPT ![p] =
               [status |-> "success",
                data |-> getRecentActivities(ITEMS_PER_PAGE, QueryOffset(p))]]
        /\ UNCHANGED <<remote, currentPage, detailsVars, timeVars>>

(* The fetch of page p ends in an error: status "error", no data. *)
FetchError ==
    \E p \in DOMAIN queryCache :
        /\ queryCache[p].status = "pending"
        /\ queryCache' = [queryCache EXCEPT ![p] =
               [status |-> "error", data |-> <<>>]]
        /\ UNCHANGED <<remote, currentPage, detailsVars, timeVars>>

(***************************************************************************)
(* JavaScript values of the metadata fields.  A string is the sequence of  *)
(* its characters; the strings the functions return are TLA+ strings.      *)
(***************************************************************************)
Undefined == [t |-> "undefined", n |-> 0, s |-> <<>>]
NaN == [t |-> "NaN", n |-> 0, s |-> <<>>]
Num(k) == [t |-> "number", n |-> k, s |-> <<>>]
Str(chars) == [t |-> "string", n |-> 0, s |-> chars]
True == [t |-> "boolean", n |-> 1, s |-> <<>>]

(* ToBoolean, as `||`, `!` and `?:` apply it. *)
Truthy(v) ==
    CASE v.t = "number" -> v.n # 0
      [] v.t = "string" -> v.s # <<>>
      [] v.t = "boolean" -> v.n = 1
      [] OTHER -> FALSE

(* a || b *)
OrElse(a, b) == IF Truthy(a) THEN a ELSE b

(* a - b on numbers and undefined (ToNumber(undefined) is NaN). *)
Minus(a, b) ==
    IF a.t = "number" /\ b.t = "number" THEN Num(a.n - b.n) ELSE NaN

(* Math.abs *)
MathAbs(v) ==
    IF v.t = "number" THEN Num(IF v.n < 0 THEN -v.n ELSE v.n) ELSE NaN

Digits == <<"0", "1", "2", "3", "4", "5", "6", "7", "8", "9">>

RECURSIVE NatToString(_)
NatToString(k) ==
    IF k < 10 THEN Digits[k + 1]
    ELSE NatToString(k \div 10) \o Digits[(k % 10) + 1]

RECURSIVE Join(_)
Join(chars) ==
    IF chars = <<>> THEN "" ELSE Head(chars) \o Join(Tail(chars))

(* JsString, as a template literal `${v}` applies it. *)
JsString(v) ==
    CASE v.t = "number" ->
            IF v.n < 0 THEN "-" \o NatToString(-v.n) ELSE NatToString(v.n)
      [] v.t = "string" -> Join(v.s)
      [] v.t = "boolean" -> IF v.n = 1 THEN "true" ELSE "false"
      [] v.t = "NaN" -> "NaN"
      [] OTHER -> "undefined"

(***************************************************************************)
(* formatTriggerReason                                                     *)
(***************************************************************************)
Lower == <<"a", "b", "c", "d", "e", "f", "g", "h", "i", "j", "k", "l", "m",
           "n", "o", "p", "q", "r", "s", "t", "u", "v", "w", "x", "y", "z">>
Upper == <<"A", "B", "C", "D", "E", "F", "G", "H", "I", "J", "K", "L", "M",
           "N", "O", "P", "Q", "R", "S", "T", "U", "V", "W", "X", "Y", "Z">>

Range(f) == {f[i] : i \in DOMAIN f}

(* \w *)
IsWordChar(c) == c \in Range(Lower) \cup Range(Upper) \cup Range(Digits) \cup {"_"}

(* l.toUpperCase() *)
toUpperCase(c) ==
    IF c \in Range(Lower)
    THEN Upper[CHOOSE i \in DOMAIN Lower : Lower[i] = c]
    ELSE c

(* .replace(/_/g, " ") *)
ReplaceUnderscores(chars) ==
    [i \in DOMAIN chars |-> IF chars[i] = "_" THEN " " ELSE chars[i]]

(* .replace(/\b\w/g, (l) => l.toUpperCase()): a word character that follows
   no word character starts a word. *)
CapitalizeWords(chars) ==
    [i \in DOMAIN chars |->
        IF IsWordChar(chars[i]) /\ (i = 1 \/ ~IsWordChar(chars[i - 1]))
        THEN toUpperCase(chars[i])
        ELSE chars[i]]

(* String.prototype.replace with a string pattern: the first occurrence. *)
ReplaceFirst(chars, from, to) ==
    LET hits == {i \in 1..(Len(chars) - Len(from) + 1) :
                    SubSeq(chars, i, i + Len(from) - 1) = from}
    IN  IF hits = {} THEN chars
        ELSE LET i == CHOOSE h \in hits : \A g \in hits : h <= g
             IN  SubSeq(chars, 1, i - 1) \o to
                    \o SubSeq(chars, i + Len(from), Len(chars))

MinimumServersEnforcement ==
    <<"M", "i", "n", "i", "m", "u", "m", " ", "S", "e", "r", "v", "e", "r",
    "s", " ", "E", "n", "f", "o", "r", "c", "e", "m", "e", "n", "t">>
MaintainingMinimumServers ==
    <<"M", "a", "i", "n", "t", "a", "i", "n", "i", "n", "g", " ", "m", "i",
    "n", "i", "m", "u", "m", " ", "s", "e", "r", "v", "e", "r", "s">>
MaximumServersEnforcement ==
    <<"M", "a", "x", "i", "m", "u", "m", " ", "S", "e", "r", "v", "e", "r",
    "s", " ", "E", "n", "f", "o", "r", "c", "e", "m", "e", "n", "t">>
MaintainingMaximumServers ==
    <<"M", "a", "i", "n", "t", "a", "i", "n", "i", "n", "g", " ", "m", "a",
    "x", "i", "m", "u", "m", " ", "s", "e", "r", "v", "e", "r", "s">>
ScaleUpThreshold ==
    <<"S", "c", "a", "l", "e", " ", "U", "p", " ", "T", "h", "r", "e", "s",
    "h", "o", "l", "d">>
HighUtilization ==
    <<"H", "i", "g", "h", " ", "u", "t", "i", "l", "i", "z", "a", "t", "i",
    "o", "n">>
ScaleDownThreshold ==
    <<"S", "c", "a", "l", "e", " ", "D", "o", "w", "n", " ", "T", "h", "r",
    "e", "s", "h", "o", "l", "d">>
LowUtilization ==
    <<"L", "o", "w", " ", "u", "t", "i", "l", "i", "z", "a", "t", "i", "o",
    "n">>

(* The outcome of a call: a value, or an exception (threw). *)
Returns(v) == [threw |-> FALSE, value |-> v]
Throws(v) == [threw |-> TRUE, value |-> v]

(* formatTriggerReason(reason): "" for a falsy reason; reason.replace is
   not a function (TypeError) for a truthy reason that is no string. *)
formatTriggerReason(reason) ==
    IF ~Truthy(reason) THEN Returns(<<>>)
    ELSE IF reason.t # "string" THEN Throws(<<>>)
    ELSE LET formatted == CapitalizeWords(ReplaceUnderscores(reason.s))
         IN  Returns(
               ReplaceFirst(
                 ReplaceFirst(
                   ReplaceFirst(
                     ReplaceFirst(formatted,
                        MinimumServersEnforcement, MaintainingMinimumServers),
                     MaximumServersEnforcement, MaintainingMaximumServers),
                   ScaleUpThreshold, HighUtilization),
                 ScaleDownThreshold, LowUtilization))

(***************************************************************************)
(* getActivityDetails                                                      *)
(***************************************************************************)
Up == <<"u", "p">>

Result(summary, det, badge) ==
    [summary |-> summary, details |-> det, hasBadge |-> TRUE, badge |-> badge]

(* { summary: "", details: "" }: no badge property. *)
NoMetadataResult ==
    [summary |-> "", details |-> "", hasBadge |-> FALSE, badge |-> ""]

(* { summary: "", details: "", badge: "" } *)
EmptyResult == Result("", "", "")

ScalingDirection_fromDiff(metadata) ==
    IF OrElse(metadata.servers_after, Num(0)).n
         >= OrElse(metadata.servers_before, Num(0)).n
    THEN "+" ELSE "-"

(* const direction = metadata.direction === "up" ? "+" : "-" *)
ScalingDirection(metadata) ==
    IF metadata.direction = Str(Up) THEN "+" ELSE "-"

(* case "SCALING_OPERATION" *)
ScalingDetails(metadata) ==
    LET beforeCount == OrElse(metadata.servers_before, Num(0))
        afterCount == OrElse(metadata.servers_after, Num(0))
        diff == Minus(afterCount, beforeCount)
        direction == ScalingDirection(metadata)
        reason == formatTriggerReason(metadata.trigger_reason)
    IN  IF reason.threw THEN Throws(EmptyResult)
        ELSE Returns(Result(
               JsString(beforeCount) \o " → " \o JsString(afterCount) \o " servers",
               IF reason.value # <<>> THEN Join(reason.value)
               ELSE "Auto-scaling triggered",
               direction \o JsString(MathAbs(diff))))

(* `${metadata.previousPlayerCount} → ${metadata.newPlayerCount} players` *)
PlayersSummary(metadata) ==
    JsString(metadata.previousPlayerCount) \o " → "
        \o JsString(metadata.newPlayerCount) \o " players"

(* metadata.timeWindow || "5m" *)
TimeWindow(metadata) == JsString(OrElse(metadata.timeWindow, Str(<<"5", "m">>)))

(* The body of the try block: the switch on activity.activityType. *)
TryBody(a) ==
    LET metadata == a.metadata
    IN  CASE a.activityType = "SCALING_OPERATION" -> ScalingDetails(metadata)
          [] a.activityType = "PLAYER_SURGE" ->
                Returns(Result(
                    PlayersSummary(metadata),
                    "Surge detected in " \o TimeWindow(metadata),
                    "+" \o JsString(Minus(metadata.newPlayerCount,
                                          metadata.previousPlayerCount))))
          [] a.activityType = "PLAYER_DROP" ->
                Returns(Result(
                    PlayersSummary(metadata),
                    "Drop detected in " \o TimeWindow(metadata),
                    "-" \o JsString(Minus(metadata.previousPlayerCount,
                                          metadata.newPlayerCount))))
          [] a.activityType = "CAPACITY_REACHED" ->
                Returns(Result(
                    JsString(metadata.newPlayerCount) \o "/"
                        \o JsString(metadata.capacity) \o " players",
                    "Server at maximum capacity",
                    "FULL"))
          [] a.activityType = "SERVER_RESTART" ->
                Returns(Result(
                    JsString(OrElse(metadata.reason,
                        Str(<<"M", "a", "n", "u", "a", "l", " ",
                              "r", "e", "s", "t", "a", "r", "t">>))),
                    IF Truthy(metadata.previousUptime)
                    THEN "Uptime: " \o JsString(metadata.previousUptime)
                    ELSE "",
                    "RESTART"))
          [] a.activityType = "ATLAS_LIFECYCLE" ->
                Returns(Result("System event", "Atlas lifecycle change", "SYSTEM"))
          [] OTHER -> Returns(EmptyResult)

getActivityDetails_noCatch(a) ==
    IF ~a.hasMetadata THEN Returns(NoMetadataResult) ELSE TryBody(a)

(* if (!activity.metadata) return ...; try { switch ... } catch { return
   { summary: "", details: "", badge: "" } } *)
getActivityDetails(a) ==
    IF ~a.hasMetadata THEN Returns(NoMetadataResult)
    ELSE IF TryBody(a).threw THEN Returns(EmptyResult)
    ELSE TryBody(a)

(***************************************************************************)
(* formatTimeAgo, on the elapsed milliseconds diffMs.                      *)
(***************************************************************************)
MsPerSecond == 1000
MsPerMinute == 1000 * 60

formatTimeAgo_roundHours(d) ==
    LET diffMinutes == d \div MsPerMinute
        diffHours == (diffMinutes + 30) \div 60
        diffDays == diffHours \div 24
    IN  IF diffMinutes < 1 THEN "now"
        ELSE IF diffMinutes < 60 THEN JsString(Num(diffMinutes)) \o "m"
        ELSE IF diffHours < 24 THEN JsString(Num(diffHours)) \o "h"
        ELSE JsString(Num(diffDays)) \o "d"

(* Math.floor is \div: both round toward minus infinity. *)
formatTimeAgo(d) ==
    LET diffMinutes == d \div MsPerMinute
        diffHours == diffMinutes \div 60
        diffDays == diffHours \div 24
    IN  IF diffMinutes < 1 THEN "now"
        ELSE IF diffMinutes < 60 THEN JsString(Num(diffMinutes)) \o "m"
        ELSE IF diffHours < 24 THEN JsString(Num(diffHours)) \o "h"
        ELSE JsString(Num(diffDays)) \o "d"

NoFields ==
    [servers_before |-> Undefined, servers_after |-> Undefined,
     direction |-> Undefined, trigger_reason |-> Undefined,
     previousPlayerCount |-> Undefined, newPlayerCount |-> Undefined,
     timeWindow |-> Undefined, capacity |-> Undefined,
     reason |-> Undefined, previousUptime |-> Undefined]

IdleDetails ==
    /\ activity = [activityType |-> "OTHER", hasMetadata |-> FALSE,
                   metadata |-> NoFields]
    /\ detailsPc = "idle"
    /\ details = NoMetadataResult

IdleTime ==
    /\ diffMs = 0
    /\ timePc = "idle"
    /\ timeAgo = ""

Init ==
    /\ remote \in RemoteLists
    /\ currentPage = 1
    /\ queryCache = (1 :> [status |-> "pending", data |-> <<>>])
    /\ IdleDetails
    /\ IdleTime

Next ==
    \/ ClickPrevious
    \/ ClickNext
    \/ FetchSuccess
    \/ FetchError

Spec == Init /\ [][Next]_vars

(***************************************************************************)
(* SpecDetails: getActivityDetails applied to one activity.                *)
(***************************************************************************)
MaxCount == 2       \* largest server / player count in the metadata

R_scale_up ==
    <<"s", "c", "a", "l", "e", "_", "u", "p", "_", "t", "h", "r", "e", "s",
    "h", "o", "l", "d">>
R_scale_down ==
    <<"s", "c", "a", "l", "e", "_", "d", "o", "w", "n", "_", "t", "h", "r",
    "e", "s", "h", "o", "l", "d">>
R_min ==
    <<"m", "i", "n", "i", "m", "u", "m", "_", "s", "e", "r", "v", "e", "r",
    "s", "_", "e", "n", "f", "o", "r", "c", "e", "m", "e", "n", "t">>
R_max ==
    <<"m", "a", "x", "i", "m", "u", "m", "_", "s", "e", "r", "v", "e", "r",
    "s", "_", "e", "n", "f", "o", "r", "c", "e", "m", "e", "n", "t">>
R_custom ==
    <<"c", "u", "s", "t", "o", "m", "_", "r", "e", "a", "s", "o", "n">>

(* A count field: absent, or a number. *)
Counts == {Undefined} \cup {Num(k) : k \in 0..MaxCount}

(* trigger_reason: absent, a string, or a value that is no string. *)
TriggerReasons ==
    {Undefined, Str(<<>>), Str(R_scale_up), Str(R_scale_down), Str(R_min),
     Str(R_max), Str(R_custom), Num(0), Num(5), True}

Directions == {Undefined, Str(Up), Str(<<"d", "o", "w", "n">>)}

(* The metadata mappings tried for each activityType: the fields the type
   reads, each present or absent. *)
MetadataFor(type) ==
    CASE type = "SCALING_OPERATION" ->
            { [NoFields EXCEPT !.servers_before = b, !.servers_after = a,
                               !.direction = d, !.trigger_reason = r] :
                b \in Counts, a \in Counts, d \in Directions,
                r \in TriggerReasons }
      [] type \in {"PLAYER_SURGE", "PLAYER_DROP"} ->
            { [NoFields EXCEPT !.previousPlayerCount = b, !.newPlayerCount = a,
                               !.timeWindow = w] :
                b \in Counts, a \in Counts,
                w \in {Undefined, Str(<<"1", "0", "m">>)} }
      [] type = "CAPACITY_REACHED" ->
            { [NoFields EXCEPT !.newPlayerCount = a, !.capacity = c] :
                a \in Counts, c \in Counts }
      [] type = "SERVER_RESTART" ->
            { [NoFields EXCEPT !.reason = r, !.previousUptime = u] :
                r \in {Undefined, Str(<<>>), Str(<<"c", "r", "a", "s", "h">>)},
                u \in {Undefined, Str(<<"3", "h">>)} }
      [] OTHER -> {NoFields, [NoFields EXCEPT !.trigger_reason = Num(5)]}

ActivityTypes ==
    {"SCALING_OPERATION", "PLAYER_SURGE", "PLAYER_DROP", "CAPACITY_REACHED",
     "SERVER_RESTART", "ATLAS_LIFECYCLE", "BACKUP_OPERATION", "OTHER"}

Activities ==
    UNION { { [activityType |-> type, hasMetadata |-> TRUE, metadata |-> m] :
                m \in MetadataFor(type) }
            \cup { [activityType |-> type, hasMetadata |-> FALSE,
                    metadata |-> NoFields] } :
            type \in ActivityTypes }

IdleView ==
    /\ remote = <<>>
    /\ currentPage = 1
    /\ queryCache = (1 :> [status |-> "pending", data |-> <<>>])

InitDetails ==
    /\ activity \in Activities
    /\ detailsPc = "idle"
    /\ details = NoMetadataResult
    /\ IdleView
    /\ IdleTime

(* const details = getActivityDetails(activity) *)
CallGetActivityDetails ==
    /\ detailsPc = "idle"
    /\ LET out == getActivityDetails(activity)
       IN  /\ detailsPc' = IF out.threw THEN "threw" ELSE "returned"
           /\ details' = out.value
    /\ UNCHANGED <<activity, viewVars, timeVars>>

NextDetails == CallGetActivityDetails

SpecDetails == InitDetails /\ [][NextDetails]_vars

(***************************************************************************)
(* SpecTime: formatTimeAgo applied to one elapsed time.                    *)
(***************************************************************************)
MaxTicks == 61      \* multiples of a second, a minute and an hour tried
MaxDays == 3        \* multiples of a day tried
MaxJitter == 2      \* milliseconds tried around each multiple

MsPerHour == MsPerMinute * 60
MsPerDay == MsPerHour * 24

(* Elapsed times around every tier boundary, the negative ones (a timestamp
   in the future) included. *)
ElapsedTimes ==
    { q * u + j : q \in -1..MaxTicks,
                  u \in {MsPerSecond, MsPerMinute, MsPerHour},
                  j \in -MaxJitter..MaxJitter }
    \cup { q * MsPerDay + j : q \in 0..MaxDays, j \in -MaxJitter..MaxJitter }

InitTime ==
    /\ diffMs \in ElapsedTimes
    /\ timePc = "idle"
    /\ timeAgo = ""
    /\ IdleView
    /\ IdleDetails

(* {formatTimeAgo(activity.timestamp)} *)
CallFormatTimeAgo ==
    /\ timePc = "idle"
    /\ timePc' = "returned"
    /\ timeAgo' = formatTimeAgo(diffMs)
    /\ UNCHANGED <<diffMs, viewVars, detailsVars>>

NextTime == CallFormatTimeAgo

SpecTime == InitTime /\ [][NextTime]_vars

(***************************************************************************)
(* Properties of ActivityPage, checked under Spec.                         *)
(***************************************************************************)
Loaded == Query.status = "success"

BackupCount(s) ==
    Cardinality({i \in 1..Len(s) : s[i].activityType = "BACKUP_OPERATION"})

(* C1: for every fetched page, hasNextPage is true exactly when the page as
   returned by getRecentActivities, before the backup operations are
   filtered out, holds 20 items. *)
C1_HasNextIffUnfilteredFull ==
    Loaded => (hasNextPage <=> Len(Query.data) = ITEMS_PER_PAGE)

(* C2: the rendered list of a returned page holds no BACKUP_OPERATION entry,
   and holds every other entry of the page exactly once, in the order the
   page was returned. *)
C2_RenderedIsPageWithoutBackups ==
    Loaded =>
        LET page == Query.data
            r == RenderedList
        IN  /\ \A j \in 1..Len(r) : r[j].activityType # "BACKUP_OPERATION"
            /\ \A j \in 1..Len(r) : \E i \in 1..Len(page) : page[i] = r[j]
            /\ \A i \in 1..Len(page) :
                 page[i].activityType # "BACKUP_OPERATION" =>
                     Cardinality({j \in 1..Len(r) : r[j] = page[i]}) = 1
            /\ \A j \in 1..(Len(r) - 1) :
                 \E i1, i2 \in 1..Len(page) :
                     i1 < i2 /\ page[i1] = r[j] /\ page[i2] = r[j + 1]

C2_Witness ==
    /\ Loaded
    /\ Len(Query.data) = ITEMS_PER_PAGE
    /\ BackupCount(Query.data) >= 2
    /\ Query.data[1].activityType # "BACKUP_OPERATION"
    /\ Query.data[ITEMS_PER_PAGE].activityType # "BACKUP_OPERATION"
    /\ Len(RenderedList) = ITEMS_PER_PAGE - BackupCount(Query.data)

(* C3: currentPage is an integer >= 1 after any sequence of Previous and
   Next clicks, and hasPrevPage is false exactly when currentPage = 1. *)
C3_CurrentPageAtLeastOne ==
    /\ currentPage \in Nat
    /\ currentPage >= 1
    /\ (~hasPrevPage <=> currentPage = 1)

(* Page 1 again after Next and Previous: Previous is now disabled. *)
C3_Witness ==
    /\ currentPage = 1
    /\ 2 \in DOMAIN queryCache
    /\ ControlsRendered
    /\ ~PrevEnabled

(* C8 as stated: when the fetch of the current page has ended in an error,
   with no data, the view shows the loading skeletons. *)
C8_FailedFetchStaysLoading ==
    Query.status = "error" => View = "loading"

(* C8 amended: when the fetch of the current page has ended in an error,
   with no data, the view shows the empty state "No activity found", with
   no rows and no pagination controls. *)
C8_FailedFetchShowsEmpty ==
    Query.status = "error" =>
        /\ View = "empty"
        /\ RenderedList = <<>>
        /\ ~ControlsRendered

C8_Witness ==
    /\ Query.status = "error"
    /\ currentPage > 1
    /\ Len(remote) >= QueryOffset(currentPage) + 1

(* C9: whenever a page with currentPage > 1 has finished loading, an enabled
   Previous control is available. *)
C9_PreviousAvailableWhenLoaded ==
    (~isPending /\ currentPage > 1) => PrevEnabled

(* C10: against a fixed remote list of N activities, every reachable
   currentPage satisfies 1 <= currentPage <= floor(N / 20) + 1. *)
C10_CurrentPageBounded ==
    /\ 1 <= currentPage
    /\ currentPage <= (Len(remote) \div ITEMS_PER_PAGE) + 1

(* One page past the last page that holds data. *)
C10_Witness ==
    /\ currentPage = (Len(remote) \div ITEMS_PER_PAGE) + 1
    /\ currentPage = 3
    /\ Loaded
    /\ Query.data = <<>>

(***************************************************************************)
(* Properties of getActivityDetails, checked under SpecDetails.            *)
(***************************************************************************)
Called == detailsPc # "idle"

(* An absent numeric field read as 0. *)
OrZero(v) == IF v = Undefined THEN Num(0) ELSE v

(* The fields are of the types the activity schema gives them. *)
WellTyped(m) ==
    m.trigger_reason.t \in {"undefined", "string"}

(* C4: with metadata present but lacking fields, each absent numeric field
   counts as 0: the player counts of PLAYER_SURGE, PLAYER_DROP and
   CAPACITY_REACHED in the summary and the badge are those defaults, never
   undefined or NaN, and no error is raised. *)
C4_AbsentFieldsDefault ==
    (Called /\ activity.hasMetadata /\ WellTyped(activity.metadata)) =>
        LET m == activity.metadata
            prev == OrZero(m.previousPlayerCount)
            new == OrZero(m.newPlayerCount)
            cap == OrZero(m.capacity)
        IN  /\ detailsPc = "returned"
            /\ activity.activityType = "PLAYER_SURGE" =>
                 /\ details.summary =
                      JsString(prev) \o " → " \o JsString(new) \o " players"
                 /\ details.badge = "+" \o JsString(Num(new.n - prev.n))
            /\ activity.activityType = "PLAYER_DROP" =>
                 /\ details.summary =
                      JsString(prev) \o " → " \o JsString(new) \o " players"
                 /\ details.badge = "-" \o JsString(Num(prev.n - new.n))
            /\ activity.activityType = "CAPACITY_REACHED" =>
                 details.summary =
                      JsString(new) \o "/" \o JsString(cap) \o " players"

(* The one computation of the try block that can fail on these inputs:
   formatTriggerReason on a truthy trigger_reason that is no string. *)
ComputationFails(a) ==
    /\ a.hasMetadata
    /\ a.activityType = "SCALING_OPERATION"
    /\ a.metadata.trigger_reason \in {Num(5), True}

(* C5: getActivityDetails never propagates an error to its caller, and
   whenever an internal computation fails the result has empty summary,
   empty details and empty badge. *)
C5_NeverThrows ==
    /\ detailsPc # "threw"
    /\ (Called /\ ComputationFails(activity)) =>
         /\ details.summary = ""
         /\ details.details = ""
         /\ details.hasBadge
         /\ details.badge = ""

C5_Witness ==
    /\ detailsPc = "returned"
    /\ ComputationFails(activity)
    /\ activity.metadata.servers_before = Num(1)
    /\ activity.metadata.servers_after = Num(2)

(* What formatTriggerReason makes of the reasons tried. *)
ExpectedReasonText(r) ==
    CASE r = Str(R_scale_up) -> "High utilization"
      [] r = Str(R_scale_down) -> "Low utilization"
      [] r = Str(R_min) -> "Maintaining minimum servers"
      [] r = Str(R_max) -> "Maintaining maximum servers"
      [] r = Str(R_custom) -> "Custom Reason"
      [] OTHER -> "Auto-scaling triggered"

ExpectedScaling(m) ==
    LET before == OrZero(m.servers_before)
        after == OrZero(m.servers_after)
        delta == after.n - before.n
    IN  Result(
          NatToString(before.n) \o " → " \o NatToString(after.n) \o " servers",
          ExpectedReasonText(m.trigger_reason),
          (IF m.direction = Str(Up) THEN "+" ELSE "-")
              \o NatToString(IF delta < 0 THEN -delta ELSE delta))

IsScaling == Called /\ activity.hasMetadata
                /\ activity.activityType = "SCALING_OPERATION"

(* C7 as stated: for every SCALING_OPERATION activity with metadata the
   summary is "<before> -> <after> servers", the badge is the sign of
   direction followed by |after - before|, and the details are the formatted
   trigger reason or "Auto-scaling triggered". *)
C7_ScalingDetailsAlways ==
    IsScaling => details = ExpectedScaling(activity.metadata)

(* C7 amended: the same, for a trigger_reason that is absent, falsy or a
   string; a truthy trigger_reason that is no string gives the all-empty
   result instead. *)
C7_ScalingDetails ==
    IsScaling =>
        IF ComputationFails(activity)
        THEN details = EmptyResult
        ELSE details = ExpectedScaling(activity.metadata)

(* Direction absent and after > before: the sign is still "-". *)
C7_Witness ==
    /\ IsScaling
    /\ activity.metadata.direction = Undefined
    /\ activity.metadata.servers_before = Undefined
    /\ activity.metadata.servers_after = Num(2)
    /\ activity.metadata.trigger_reason = Str(R_scale_up)
    /\ details.summary = "0 → 2 servers"
    /\ details.badge = "-2"
    /\ details.details = "High utilization"

(***************************************************************************)
(* Properties of formatTimeAgo, checked under SpecTime.                    *)
(***************************************************************************)
(* C6: with s the whole seconds elapsed, formatTimeAgo returns "now" when
   s < 60, floor(s/60) "m" when 60 <= s < 3600, floor(s/3600) "h" when
   3600 <= s < 86400 and floor(s/86400) "d" when s >= 86400. *)
C6_TimeAgoTiers ==
    timePc = "returned" =>
        LET s == diffMs \div MsPerSecond
        IN  /\ s < 60 => timeAgo = "now"
            /\ (60 <= s /\ s < 3600) => timeAgo = NatToString(s \div 60) \o "m"
            /\ (3600 <= s /\ s < 86400) =>
                  timeAgo = NatToString(s \div 3600) \o "h"
            /\ s >= 86400 => timeAgo = NatToString(s \div 86400) \o "d"

(* One millisecond short of two days is still "1d". *)
C6_Witness ==
    /\ timePc = "returned"
    /\ diffMs = 2 * MsPerDay - 1
    /\ timeAgo = "1d"

====
